---- MODULE Spec2Model ----
(***************************************************************************)
(* Model of ldm/dream/args.py: the Args object, which keeps the record of  *)
(* the startup flags (_arg_switches) and the record of the flags of the    *)
(* last dream> command (_cmd_switches) and presents both as one namespace. *)
(*                                                                         *)
(* A Python str is modelled as a sequence of lexical units.  A unit is one *)
(* of the four characters shlex treats specially (space, double quote,     *)
(* single quote, backslash) or an atomic word of ordinary characters       *)
(* ("cat", "-s", "10").  The only places where the code looks inside a     *)
(* word are el[0] == '-' (DashUnits), the option table of argparse and     *)
(* int()/float()/str(), which are modelled by tables over the words.       *)
(*                                                                         *)
(* A Python value is a record [k |-> kind, v |-> payload].                 *)
(***************************************************************************)
EXTENDS Integers, Sequences, FiniteSets, TLC

VARIABLES
    arg_switches,   \* self._arg_switches.__dict__ : name -> value
    cmd_switches,   \* self._cmd_switches.__dict__ : name -> value
    own,            \* the instance's own dict beyond the four fields of __init__
    ret             \* what the last call returned or raised

vars == <<arg_switches, cmd_switches, own, ret>>

-----------------------------------------------------------------------------
(* Lexical units. *)

SP == " "
DQ == "\""
SQ == "'"
BS == "\\"

\* The words whose first character is a dash (the test el[0] == '-'):
\* every word of the model that begins with a dash is listed here.
DashUnits ==
    {"-s", "-S", "-n", "-W", "-H", "-C", "-g", "-o", "-i", "-I", "-M", "-T",
     "-f", "-G", "-U", "-x", "-A", "-m", "-t", "-v", "-V",
     "--steps", "--seed", "--iterations", "--width", "--height",
     "--cfg_scale", "--grid", "--outdir", "--seamless", "--individual",
     "--init_img", "--init_mask", "-fit", "--fit", "--strength",
     "--gfpgan_strength", "--upscale", "--save_original", "-save_orig",
     "--embiggen", "-embiggen", "--embiggen_tiles", "-embiggen_tiles",
     "--skip_normalize", "--sampler", "--log_tokenization",
     "--variation_amount", "--with_variations",
     "--laion400m", "--weights", "--conf", "-c", "-conf", "--model",
     "--from_file", "-F", "--full_precision", "--embedding_path",
     "--prompt_as_dir", "-p", "--gfpgan_bg_upsampler", "--gfpgan_bg_tile",
     "--gfpgan_model_path", "--gfpgan_dir", "--web", "--host", "--port",
     "-1", "-z", "-"}

-----------------------------------------------------------------------------
(* Python values. *)

PyNone       == [k |-> "None"]
PyInt(n)     == [k |-> "int", v |-> n]
PyFloat(h)   == [k |-> "float", v |-> h]       \* h: the number in hundredths
PyStr(s)     == [k |-> "str", v |-> s]         \* s: a sequence of units
PyBool(b)    == [k |-> "bool", v |-> b]
PyList(l)    == [k |-> "list", v |-> l]        \* l: a sequence of values
PyTuple(l)   == [k |-> "tuple", v |-> l]
PyMethod(n)  == [k |-> "method", v |-> n]
PyParser(n)  == [k |-> "parser", v |-> n]
PyDict(d)    == [k |-> "dict", v |-> d]
PyJson(d)    == [k |-> "json", v |-> d]
PyNamespace(d) == [k |-> "namespace", v |-> d]

\* int(): the integer literals of the model, and what int() makes of them.
IntLit ==
    ("1" :> 1) @@ ("7" :> 7) @@ ("10" :> 10) @@ ("42" :> 42) @@ ("17" :> 17)
    @@ ("50" :> 50) @@ ("400" :> 400) @@ ("512" :> 512) @@ ("9090" :> 9090)
    @@ ("-1" :> -1) @@ ("0" :> 0) @@ ("2" :> 2)

\* float(): every integer literal is a float literal too.
FloatLit ==
    ("7.5" :> 750) @@ ("0.75" :> 75) @@ ("0.5" :> 50) @@ ("0.25" :> 25)
    @@ ("0.0" :> 0) @@ ("2.0" :> 200) @@ ("10.0" :> 1000)
    @@ [u \in DOMAIN IntLit |-> 100 * IntLit[u]]

\* str() of a float: the shortest repr, always with a fractional part.
FloatStr ==
    (750 :> "7.5") @@ (75 :> "0.75") @@ (50 :> "0.5") @@ (25 :> "0.25")
    @@ (0 :> "0.0") @@ (200 :> "2.0") @@ (1000 :> "10.0") @@ (100 :> "1.0")
    @@ (700 :> "7.0") @@ (4200 :> "42.0") @@ (1700 :> "17.0")
    @@ (5000 :> "50.0") @@ (40000 :> "400.0") @@ (51200 :> "512.0")
    @@ (909000 :> "9090.0") @@ (-100 :> "-1.0")

\* str() of an int: the literal that int() reads back.
IntStr(n) == CHOOSE u \in DOMAIN IntLit : IntLit[u] = n

Failure == [ok |-> FALSE]

\* str.strip() of the blanks around a literal, as int() and float() do it
RECURSIVE strip(_)
strip(tok) ==
    IF tok # <<>> /\ Head(tok) = SP THEN strip(Tail(tok))
    ELSE IF tok # <<>> /\ tok[Len(tok)] = SP THEN strip(SubSeq(tok, 1, Len(tok) - 1))
    ELSE tok

\* int(token) of argparse's type=int
int(tok) ==
    LET t == strip(tok) IN
    IF Len(t) = 1 /\ t[1] \in DOMAIN IntLit
    THEN [ok |-> TRUE, val |-> PyInt(IntLit[t[1]])]
    ELSE Failure

\* float(token) of argparse's type=float
float(tok) ==
    LET t == strip(tok) IN
    IF Len(t) = 1 /\ t[1] \in DOMAIN FloatLit
    THEN [ok |-> TRUE, val |-> PyFloat(FloatLit[t[1]])]
    ELSE Failure

-----------------------------------------------------------------------------
(* shlex.split(command): posix mode, whitespace_split, no comments. *)

Quotes == {DQ, SQ}

\* shlex.read_token, iterated to the end of the input.  st is the lexer's
\* state (" ": between tokens, "a": in a word, a quote, or the escape
\* character), es its escapedstate, tok the token so far, q whether the
\* token was quoted, out the tokens already returned.
RECURSIVE lex(_, _, _, _, _, _, _)
lex(s, i, st, es, tok, q, out) ==
    IF i > Len(s)
    THEN IF st \in Quotes \/ st = BS
         THEN Failure                       \* ValueError
         ELSE IF st = "a" /\ (tok # <<>> \/ q)
              THEN [ok |-> TRUE, tokens |-> Append(out, tok)]
              ELSE [ok |-> TRUE, tokens |-> out]
    ELSE LET c == s[i] IN
         IF st = " "
         THEN IF c = SP THEN lex(s, i + 1, " ", es, tok, q, out)
              ELSE IF c = BS THEN lex(s, i + 1, BS, "a", tok, q, out)
              ELSE IF c \in Quotes THEN lex(s, i + 1, c, es, tok, q, out)
              ELSE lex(s, i + 1, "a", es, <<c>>, q, out)
         ELSE IF st \in Quotes
         THEN IF c = st THEN lex(s, i + 1, "a", es, tok, TRUE, out)
              ELSE IF c = BS /\ st = DQ THEN lex(s, i + 1, BS, st, tok, TRUE, out)
              ELSE lex(s, i + 1, st, es, Append(tok, c), TRUE, out)
         ELSE IF st = BS
         THEN IF es \in Quotes /\ c # BS /\ c # es
              THEN lex(s, i + 1, es, es, tok \o <<BS, c>>, q, out)
              ELSE lex(s, i + 1, es, es, Append(tok, c), q, out)
         ELSE \* st = "a"
              IF c = SP
              THEN IF tok # <<>> \/ q
                   THEN lex(s, i + 1, " ", es, <<>>, FALSE, Append(out, tok))
                   ELSE lex(s, i + 1, " ", es, tok, q, out)
              ELSE IF c \in Quotes THEN lex(s, i + 1, c, es, tok, q, out)
              ELSE IF c = BS THEN lex(s, i + 1, BS, "a", tok, q, out)
              ELSE lex(s, i + 1, "a", es, Append(tok, c), q, out)

shlex_split(s) == lex(s, 1, " ", " ", <<>>, FALSE, <<>>)

\* cmd_string.replace("'", "\\'")
RECURSIVE replace_quote(_)
replace_quote(s) ==
    IF s = <<>> THEN <<>>
    ELSE (IF Head(s) = SQ THEN <<BS, SQ>> ELSE <<Head(s)>>) \o replace_quote(Tail(s))

-----------------------------------------------------------------------------
(* The command parser of _create_cmd_parser and argparse's parse_args. *)

SAMPLER_CHOICES ==
    {"ddim", "k_dpm_2_a", "k_dpm_2", "k_euler_a", "k_euler", "k_heun",
     "k_lms", "plms"}

\* The defaults of the optional arguments.
CmdDefaults ==
    [steps |-> PyInt(50), seed |-> PyNone, iterations |-> PyInt(1),
     width |-> PyInt(512), height |-> PyInt(512), cfg_scale |-> PyFloat(750),
     grid |-> PyBool(FALSE), outdir |-> PyStr(<<"outputs/img-samples">>),
     seamless |-> PyBool(FALSE), individual |-> PyBool(FALSE),
     init_img |-> PyStr(<<>>), init_mask |-> PyStr(<<>>),
     fit |-> PyBool(FALSE), strength |-> PyFloat(75),
     gfpgan_strength |-> PyInt(0), upscale |-> PyNone,
     save_original |-> PyBool(FALSE), embiggen |-> PyNone,
     embiggen_tiles |-> PyNone, skip_normalize |-> PyBool(FALSE),
     sampler_name |-> PyStr(<<"k_lms">>), log_tokenization |-> PyBool(FALSE),
     variation_amount |-> PyFloat(0), with_variations |-> PyNone]

Opt(dest, type) == [dest |-> dest, type |-> type]

\* Every option string of the command parser: its dest and what it stores.
\* "flag" is store_true; "floats" and "ints" are nargs='+'.
CmdOptions ==
    ("-s" :> Opt("steps", "int")) @@ ("--steps" :> Opt("steps", "int"))
    @@ ("-S" :> Opt("seed", "int")) @@ ("--seed" :> Opt("seed", "int"))
    @@ ("-n" :> Opt("iterations", "int"))
    @@ ("--iterations" :> Opt("iterations", "int"))
    @@ ("-W" :> Opt("width", "int")) @@ ("--width" :> Opt("width", "int"))
    @@ ("-H" :> Opt("height", "int")) @@ ("--height" :> Opt("height", "int"))
    @@ ("-C" :> Opt("cfg_scale", "float"))
    @@ ("--cfg_scale" :> Opt("cfg_scale", "float"))
    @@ ("--grid" :> Opt("grid", "flag")) @@ ("-g" :> Opt("grid", "flag"))
    @@ ("--outdir" :> Opt("outdir", "str")) @@ ("-o" :> Opt("outdir", "str"))
    @@ ("--seamless" :> Opt("seamless", "flag"))
    @@ ("-i" :> Opt("individual", "flag"))
    @@ ("--individual" :> Opt("individual", "flag"))
    @@ ("-I" :> Opt("init_img", "str")) @@ ("--init_img" :> Opt("init_img", "str"))
    @@ ("-M" :> Opt("init_mask", "str"))
    @@ ("--init_mask" :> Opt("init_mask", "str"))
    @@ ("-T" :> Opt("fit", "flag")) @@ ("-fit" :> Opt("fit", "flag"))
    @@ ("--fit" :> Opt("fit", "flag"))
    @@ ("-f" :> Opt("strength", "float"))
    @@ ("--strength" :> Opt("strength", "float"))
    @@ ("-G" :> Opt("gfpgan_strength", "float"))
    @@ ("--gfpgan_strength" :> Opt("gfpgan_strength", "float"))
    @@ ("-U" :> Opt("upscale", "floats")) @@ ("--upscale" :> Opt("upscale", "floats"))
    @@ ("--save_original" :> Opt("save_original", "flag"))
    @@ ("-save_orig" :> Opt("save_original", "flag"))
    @@ ("--embiggen" :> Opt("embiggen", "floats"))
    @@ ("-embiggen" :> Opt("embiggen", "floats"))
    @@ ("--embiggen_tiles" :> Opt("embiggen_tiles", "ints"))
    @@ ("-embiggen_tiles" :> Opt("embiggen_tiles", "ints"))
    @@ ("-x" :> Opt("skip_normalize", "flag"))
    @@ ("--skip_normalize" :> Opt("skip_normalize", "flag"))
    @@ ("-A" :> Opt("sampler_name", "choice")) @@ ("-m" :> Opt("sampler_name", "choice"))
    @@ ("--sampler" :> Opt("sampler_name", "choice"))
    @@ ("-t" :> Opt("log_tokenization", "flag"))
    @@ ("--log_tokenization" :> Opt("log_tokenization", "flag"))
    @@ ("-v" :> Opt("variation_amount", "float"))
    @@ ("--variation_amount" :> Opt("variation_amount", "float"))
    @@ ("-V" :> Opt("with_variations", "str"))
    @@ ("--with_variations" :> Opt("with_variations", "str"))

\* The command parser: its option strings, those of one dash and one letter
\* (a value may be attached to them: -W1024), the longer one-dash option
\* strings that begin like one of these, and its positional argument.
cmd_parser ==
    [options |-> CmdOptions,
     short |-> {"-s", "-S", "-n", "-W", "-H", "-C", "-g", "-o", "-i", "-I", "-M",
                "-T", "-f", "-G", "-U", "-x", "-A", "-m", "-t", "-v", "-V"},
     prefixed |-> {"-fit", "-save_orig"},
     positional |-> {"prompt"},
     defaults |-> CmdDefaults]

\* argparse's view of one argument string: "O" an option string, "X" a short
\* option with its value attached, "A" an argument (a string that does not
\* begin with a dash, the empty string, a lone dash, a negative number, a
\* string with a blank that matches no option), "U" an unknown option.
ArgClass(parser, tok) ==
    IF tok = <<>> \/ tok[1] \notin DashUnits \/ tok = <<"-">> \/ tok = <<"-1">>
    THEN "A"
    ELSE IF Len(tok) = 1 /\ tok[1] \in DOMAIN parser.options THEN "O"
    ELSE IF Len(tok) > 1 /\ tok[1] \in parser.short THEN "X"
    ELSE IF tok[1] \notin parser.prefixed /\ \E x \in DOMAIN tok : tok[x] = SP
         THEN "A"
    ELSE "U"

\* The type conversion of one value of an option.
Convert(type, tok) ==
    IF type \in {"int", "ints"} THEN int(tok)
    ELSE IF type \in {"float", "floats"} THEN float(tok)
    ELSE IF type = "choice"
         THEN IF Len(tok) = 1 /\ tok[1] \in SAMPLER_CHOICES
              THEN [ok |-> TRUE, val |-> PyStr(tok)] ELSE Failure
    ELSE [ok |-> TRUE, val |-> PyStr(tok)]

\* The index after the run of "A" strings that starts at i.
RECURSIVE EndOfArgs(_, _, _)
EndOfArgs(parser, args, i) ==
    IF i <= Len(args) /\ ArgClass(parser, args[i]) = "A"
    THEN EndOfArgs(parser, args, i + 1) ELSE i

\* ArgumentParser.parse_args(args), from string i on, ns holding what is
\* stored so far.  A failure is argparse's error(): the usage message and
\* SystemExit.
RECURSIVE parse_args(_, _, _, _)
parse_args(parser, args, i, ns) ==
    IF i > Len(args)
    THEN IF parser.positional \subseteq DOMAIN ns
         THEN [ok |-> TRUE, ns |-> ns] ELSE Failure
    ELSE LET tok == args[i]
             c   == ArgClass(parser, tok)
         IN
         IF c = "A"
         THEN IF parser.positional \subseteq DOMAIN ns THEN Failure
              ELSE parse_args(parser, args, i + 1, ("prompt" :> PyStr(tok)) @@ ns)
         ELSE IF c = "U" THEN Failure
         ELSE LET o == parser.options[tok[1]] IN
              IF o.type = "flag"
              THEN IF c = "X" THEN Failure
                   ELSE parse_args(parser, args, i + 1, (o.dest :> PyBool(TRUE)) @@ ns)
              ELSE IF c = "X"
              THEN LET r == Convert(o.type, SubSeq(tok, 2, Len(tok))) IN
                   IF ~r.ok THEN Failure
                   ELSE parse_args(parser, args, i + 1,
                          (o.dest :> (IF o.type \in {"floats", "ints"}
                                      THEN PyList(<<r.val>>) ELSE r.val)) @@ ns)
              ELSE IF o.type \in {"floats", "ints"}
              THEN LET j  == EndOfArgs(parser, args, i + 1)
                       rs == [x \in 1..(j - i - 1) |-> Convert(o.type, args[i + x])]
                   IN
                   IF j = i + 1 \/ \E x \in DOMAIN rs : ~rs[x].ok THEN Failure
                   ELSE parse_args(parser, args, j,
                          (o.dest :> PyList([x \in DOMAIN rs |-> rs[x].val])) @@ ns)
              ELSE IF i + 1 > Len(args) \/ ArgClass(parser, args[i + 1]) # "A"
              THEN Failure
              ELSE LET r == Convert(o.type, args[i + 1]) IN
                   IF ~r.ok THEN Failure
                   ELSE parse_args(parser, args, i + 2, (o.dest :> r.val) @@ ns)

-----------------------------------------------------------------------------
(* Args.parse_cmd *)

\* s[: len(s) - 1]
DropLast(s) == IF s = <<>> THEN <<>> ELSE SubSeq(s, 1, Len(s) - 1)

\* The loop over the elements: switches[0] collects the prompt, the first
\* element that begins with a dash and all that follow are appended.
\* el[0] of an empty element raises IndexError.
RECURSIVE scan_elements(_, _, _, _)
scan_elements(elements, i, switches, switches_started) ==
    IF i > Len(elements) THEN [ok |-> TRUE, switches |-> switches]
    ELSE LET el == elements[i] IN
         IF el = <<>> THEN Failure
         ELSE LET started == switches_started \/ el[1] \in DashUnits IN
              IF started
              THEN scan_elements(elements, i + 1, Append(switches, el), started)
              ELSE scan_elements(elements, i + 1,
                     [switches EXCEPT ![1] = @ \o el \o <<SP>>], started)

\* What the call does: the outcome ("return" or the exception raised past
\* the call), the value returned, the list handed to the flag parser
\* (handed says whether line 104 was reached) and the new _cmd_switches.
parse_cmd(cmd, cmd_string) ==
    LET command  == replace_quote(cmd_string)
        elements == shlex_split(command)
        noresult == [cmd |-> cmd, outcome |-> "return", value |-> PyNone,
                     handed |-> FALSE, switches |-> <<>>]
    IN
    IF ~elements.ok
    THEN \* except ValueError: traceback and sys are not imported
         [noresult EXCEPT !.outcome = "NameError"]
    ELSE LET scanned == scan_elements(elements.tokens, 1, << <<>> >>, FALSE) IN
         IF ~scanned.ok THEN [noresult EXCEPT !.outcome = "IndexError"]
         ELSE LET switches == [scanned.switches EXCEPT ![1] = DropLast(@)]
                  parsed   == parse_args(cmd_parser, switches, 1, CmdDefaults)
              IN
              IF ~parsed.ok
              THEN [noresult EXCEPT !.outcome = "SystemExit",
                                    !.handed = TRUE, !.switches = switches]
              ELSE [cmd |-> parsed.ns, outcome |-> "return",
                    value |-> PyNamespace(parsed.ns),
                    handed |-> TRUE, switches |-> switches]

-----------------------------------------------------------------------------
(* The startup parser of _create_arg_parser. *)

ArgDefaults ==
    [laion400m |-> PyNone, weights |-> PyNone,
     conf |-> PyStr(<<"./configs/models.yaml">>),
     model |-> PyStr(<<"stable-diffusion-1.4">>), infile |-> PyNone,
     full_precision |-> PyBool(FALSE),
     outdir |-> PyStr(<<"outputs/img-samples">>),
     seamless |-> PyBool(FALSE), grid |-> PyBool(FALSE),
     embedding_path |-> PyNone, prompt_as_dir |-> PyBool(FALSE),
     gfpgan_bg_upsampler |-> PyStr(<<"realesrgan">>),
     gfpgan_bg_tile |-> PyInt(400),
     gfpgan_model_path |-> PyStr(<<"experiments/pretrained_models/GFPGANv1.3.pth">>),
     gfpgan_dir |-> PyStr(<<"./src/gfpgan">>), web |-> PyBool(FALSE),
     host |-> PyStr(<<"127.0.0.1">>), port |-> PyInt(9090)]

ArgOptions ==
    ("--laion400m" :> Opt("laion400m", "str")) @@ ("--weights" :> Opt("weights", "str"))
    @@ ("--conf" :> Opt("conf", "str")) @@ ("-c" :> Opt("conf", "str"))
    @@ ("-conf" :> Opt("conf", "str")) @@ ("--model" :> Opt("model", "str"))
    @@ ("--from_file" :> Opt("infile", "str"))
    @@ ("-F" :> Opt("full_precision", "flag"))
    @@ ("--full_precision" :> Opt("full_precision", "flag"))
    @@ ("--outdir" :> Opt("outdir", "str")) @@ ("-o" :> Opt("outdir", "str"))
    @@ ("--seamless" :> Opt("seamless", "flag"))
    @@ ("--grid" :> Opt("grid", "flag")) @@ ("-g" :> Opt("grid", "flag"))
    @@ ("--embedding_path" :> Opt("embedding_path", "str"))
    @@ ("--prompt_as_dir" :> Opt("prompt_as_dir", "flag"))
    @@ ("-p" :> Opt("prompt_as_dir", "flag"))
    @@ ("--gfpgan_bg_upsampler" :> Opt("gfpgan_bg_upsampler", "str"))
    @@ ("--gfpgan_bg_tile" :> Opt("gfpgan_bg_tile", "int"))
    @@ ("--gfpgan_model_path" :> Opt("gfpgan_model_path", "str"))
    @@ ("--gfpgan_dir" :> Opt("gfpgan_dir", "str"))
    @@ ("--web" :> Opt("web", "flag")) @@ ("--host" :> Opt("host", "str"))
    @@ ("--port" :> Opt("port", "int"))

arg_parser ==
    [options |-> ArgOptions, short |-> {"-c", "-F", "-o", "-g", "-p"},
     prefixed |-> {"-conf"}, positional |-> {}, defaults |-> ArgDefaults]

\* sys.argv[1:] of the process.  The model runs the process without startup
\* flags: every startup field holds its declared default.
argv == <<>>

\* self._arg_parser.parse_args(): a usage error ends the process, so the
\* object only exists for an argument list the parser accepts.
startup_switches == parse_args(arg_parser, argv, 1, ArgDefaults).ns

-----------------------------------------------------------------------------
(* The merge layer: __getattribute__ and __setattr__. *)

\* The attributes object.__getattribute__ finds on the class.
ClassAttrs ==
    {"parse_args", "parse_cmd", "json", "to_dict", "prompt_str",
     "_create_arg_parser", "_create_cmd_parser"}

\* The names of the model that begin with an underscore.
UnderscoreNames ==
    {"_arg_parser", "_cmd_parser", "_arg_switches", "_cmd_switches",
     "_create_arg_parser", "_create_cmd_parser", "_note", "__dict__"}

startswith_underscore(name) == name \in UnderscoreNames

\* The empty dict: no keyword arguments, no extra instance attributes.
NoKwargs == [n \in {} |-> PyNone]

Returned(v) == [outcome |-> "return", value |-> v]
Raised(e)   == [outcome |-> e, value |-> PyNone]

\* vars(self): self._arg_switches.__dict__ after update() with the command
\* record.  It is that dict itself, not a copy.
full_dict(cmd, arg) == cmd @@ arg

\* object.__getattribute__(self, name): the instance's dict, then the class.
object_getattribute(o, cmd, arg, name) ==
    IF name \in DOMAIN o THEN Returned(o[name])
    ELSE IF name = "_arg_switches" THEN Returned(PyNamespace(arg))
    ELSE IF name = "_cmd_switches" THEN Returned(PyNamespace(cmd))
    ELSE IF name \in {"_arg_parser", "_cmd_parser"} THEN Returned(PyParser(name))
    ELSE IF name \in ClassAttrs THEN Returned(PyMethod(name))
    ELSE Raised("AttributeError")

\* A merge layer that looks in the startup record before the command record.
getattribute_startup_first(o, cmd, arg, name) ==
    LET found == object_getattribute(o, cmd, arg, name) IN
    IF found.outcome = "return" THEN found
    ELSE IF name \in DOMAIN arg THEN Returned(arg[name])
    ELSE IF name \in DOMAIN cmd THEN Returned(cmd[name])
    ELSE Raised("AttributeError")

\* Args.__getattribute__(name) for a name other than __dict__.
getattribute(o, cmd, arg, name) ==
    LET found == object_getattribute(o, cmd, arg, name) IN
    IF found.outcome = "return" THEN found
    ELSE IF name \in DOMAIN cmd THEN Returned(cmd[name])
    ELSE IF name \in DOMAIN arg THEN Returned(arg[name])
    ELSE Raised("AttributeError")

\* Args.__setattr__(name, value): the new instance dict and command record.
setattr(o, cmd, name, value) ==
    IF startswith_underscore(name)
    THEN [own |-> (name :> value) @@ o, cmd |-> cmd]
    ELSE [own |-> o, cmd |-> (name :> value) @@ cmd]

-----------------------------------------------------------------------------
(* The serialization helpers: to_dict, json, prompt_str, format_metadata. *)

\* ' '.join / ','.join of a sequence of strings
RECURSIVE join(_, _)
join(sep, strs) ==
    IF strs = <<>> THEN <<>>
    ELSE IF Len(strs) = 1 THEN strs[1]
    ELSE strs[1] \o <<sep>> \o join(sep, Tail(strs))

\* str(v), as an f-string formats a value
RECURSIVE str(_)
str(v) ==
    IF v.k = "None" THEN <<"None">>
    ELSE IF v.k = "int" THEN <<IntStr(v.v)>>
    ELSE IF v.k = "float" THEN <<FloatStr[v.v]>>
    ELSE IF v.k = "str" THEN v.v
    ELSE IF v.k = "bool" THEN (IF v.v THEN <<"True">> ELSE <<"False">>)
    ELSE IF v.k = "list"
         THEN <<"[">> \o join(SP, [i \in DOMAIN v.v |-> str(v.v[i]) \o
                                   (IF i < Len(v.v) THEN <<",">> ELSE <<>>)]) \o <<"]">>
    ELSE <<"<", v.k, ">">>

\* bool(v)
truthy(v) ==
    IF v.k = "None" THEN FALSE
    ELSE IF v.k \in {"int", "float"} THEN v.v # 0
    ELSE IF v.k = "bool" THEN v.v
    ELSE IF v.k \in {"str", "list", "tuple"} THEN v.v # <<>>
    ELSE TRUE

Sized == {"str", "list", "tuple"}
Numbers == {"int", "float", "bool"}

\* One step of prompt_str: the switches it appends, or the exception it raises.
Emits(sw) == [err |-> "", out |-> sw]
Throws(e) == [err |-> e, out |-> <<>>]

\* f'-U {" ".join([str(u) for u in a[name]])}': the model's records hold
\* None or a list in these fields.
joined_switch(flag, v) ==
    IF ~truthy(v) THEN Emits(<<>>)
    ELSE IF v.k \notin {"list", "tuple"} THEN Throws("TypeError")
    ELSE Emits(<< <<flag, SP>> \o join(SP, [i \in DOMAIN v.v |-> str(v.v[i])]) >>)

\* ','.join(f'{seed}:{weight}' for seed, weight in a["with_variations"]):
\* the characters of a str do not unpack into two names.
variations_switch(v) ==
    IF ~truthy(v) THEN Emits(<<>>)
    ELSE IF v.k = "str" THEN Throws("ValueError")
    ELSE IF v.k \notin {"list", "tuple"} THEN Throws("TypeError")
    ELSE IF \E i \in DOMAIN v.v : v.v[i].k \notin {"list", "tuple"} THEN Throws("TypeError")
    ELSE IF \E i \in DOMAIN v.v : Len(v.v[i].v) # 2 THEN Throws("ValueError")
    ELSE Emits(<< <<"-V", SP>> \o
                  join(",", [i \in DOMAIN v.v |->
                               str(v.v[i].v[1]) \o <<":">> \o str(v.v[i].v[2])]) >>)

\* The steps of prompt_str in the order of the code, over the dict a.
prompt_steps(a) ==
    << Emits(<< <<DQ>> \o str(a["prompt"]) >>),
       Emits(<< <<"-s", SP>> \o str(a["steps"]) >>),
       Emits(<< <<"-W", SP>> \o str(a["width"]) >>),
       Emits(<< <<"-H", SP>> \o str(a["height"]) >>),
       Emits(<< <<"-C", SP>> \o str(a["cfg_scale"]) >>),
       Emits(<< <<"-A", SP>> \o str(a["sampler_name"]) >>),
       Emits(<< <<"-S", SP>> \o str(a["seed"]) >>),
       IF truthy(a["seamless"]) THEN Emits(<< <<"--seamless">> >>) ELSE Emits(<<>>),
       \* len(a['init_img'])>0, then a.init_img on a dict
       IF a["init_img"].k \notin Sized THEN Throws("TypeError")
       ELSE IF Len(a["init_img"].v) > 0 THEN Throws("AttributeError")
       ELSE Emits(<<>>),
       IF truthy(a["fit"]) THEN Emits(<< <<"--fit">> >>) ELSE Emits(<<>>),
       IF ~truthy(a["strength"]) THEN Emits(<<>>)
       ELSE IF a["init_img"].k \notin Sized THEN Throws("TypeError")
       ELSE IF Len(a["init_img"].v) > 0
            THEN Emits(<< <<"-f", SP>> \o str(a["strength"]) >>)
       ELSE Emits(<<>>),
       IF truthy(a["gfpgan_strength"])
       THEN Emits(<< <<"-G", SP>> \o str(a["gfpgan_strength"]) >>) ELSE Emits(<<>>),
       joined_switch("-U", a["upscale"]),
       joined_switch("--embiggen", a["embiggen"]),
       joined_switch("--embiggen_tiles", a["embiggen_tiles"]),
       IF a["variation_amount"].k \notin Numbers THEN Throws("TypeError")
       ELSE IF (IF a["variation_amount"].k = "bool" THEN a["variation_amount"].v
                ELSE a["variation_amount"].v > 0)
            THEN Emits(<< <<"-v", SP>> \o str(a["variation_amount"]) >>)
       ELSE Emits(<<>>),
       variations_switch(a["with_variations"]) >>

RECURSIVE concat(_)
concat(seqs) == IF seqs = <<>> THEN <<>> ELSE Head(seqs) \o concat(Tail(seqs))

\* The body of prompt_str after a.update(kwargs): the first exception of
\* the steps, or the switches joined by blanks.
prompt_string(a) ==
    LET steps  == prompt_steps(a)
        failed == {i \in DOMAIN steps : steps[i].err # ""}
    IN
    IF failed # {}
    THEN Raised(steps[CHOOSE i \in failed : \A j \in failed : i <= j].err)
    ELSE Returned(PyStr(join(SP, concat([i \in DOMAIN steps |-> steps[i].out]))))

\* Args.to_dict(**kwargs): a = vars(self); a.update(kwargs); return a.
\* a is the startup record's own dict.
to_dict(cmd, arg, kwargs) ==
    LET a == kwargs @@ full_dict(cmd, arg) IN
    [arg |-> a, result |-> Returned(PyDict(a))]

\* Args.json(**kwargs)
json(cmd, arg, kwargs) ==
    LET d == to_dict(cmd, arg, kwargs) IN
    [arg |-> d.arg, result |-> Returned(PyJson(d.result.value.v))]

\* Args.prompt_str(**kwargs)
prompt_str(cmd, arg, kwargs) ==
    LET a == kwargs @@ full_dict(cmd, arg) IN
    [arg |-> a, result |-> prompt_string(a)]

APP_ID      == <<"lstein/stable-diffusion">>
APP_VERSION == <<"v1.15">>

\* format_metadata(opt)
format_metadata(o, cmd, arg) ==
    LET model_id == getattribute(o, cmd, arg, "model") IN
    IF model_id.outcome # "return" THEN [arg |-> arg, result |-> model_id]
    ELSE LET d == to_dict(cmd, arg, NoKwargs) IN
         [arg |-> d.arg,
          result |-> Returned(PyDict(
              [model |-> PyStr(<<"stable diffusion">>), model_id |-> model_id.value,
               app_id |-> PyStr(APP_ID), app_version |-> PyStr(APP_VERSION),
               image |-> d.result.value]))]

-----------------------------------------------------------------------------
(* The calls the model makes on the object. *)

\* The command strings typed at the dream> prompt.
CmdStrings ==
    { <<>>,
      <<"cat", SP, "-s", SP, "10">>,
      <<"cat", SP, "-I", SP, "img.png">>,
      <<"it", SQ, "s", SP, "-G", SP, "0.5", SP, "-U", SP, "2", SP, "0.5",
        SP, "--seamless">>,
      <<"cat", SP, DQ, "dog">>,              \* unbalanced quote
      <<"cat", SP, "-s", SP, "dog">>,        \* not an int
      <<"cat", SP, DQ, DQ>> }                \* an empty element

\* The attribute writes: a startup-only field, a command field, a name
\* that is also a method of the class, and an internal name.
Writes ==
    { <<"model", PyStr(<<"laion400m">>)>>,
      <<"seed", PyInt(7)>>,
      <<"json", PyInt(1)>>,
      <<"_note", PyInt(1)>> }

\* The keyword arguments given to to_dict, json and prompt_str.
Overrides ==
    { NoKwargs, ("seed" :> PyInt(42)), ("foo" :> PyInt(2)) }

\* The attribute names read.
ReadNames == {"model", "foo", "json"}

Call(op, name, input, kwargs, result) ==
    [op |-> op, name |-> name, input |-> input, kwargs |-> kwargs,
     outcome |-> result.outcome, value |-> result.value,
     handed |-> FALSE, switches |-> <<>>]

\* __init__: parse_args(), then parse_cmd('')
Init ==
    /\ arg_switches = startup_switches
    /\ cmd_switches = parse_cmd(CmdDefaults, <<>>).cmd
    /\ own = NoKwargs
    /\ ret = Call("init", "", <<>>, NoKwargs, Returned(PyNone))

ParseArgs ==
    /\ arg_switches' = startup_switches
    /\ ret' = Call("parse_args", "", <<>>, NoKwargs,
                   Returned(PyNamespace(startup_switches)))
    /\ UNCHANGED <<cmd_switches, own>>

\* A parse_cmd that resets the command record to the parser's defaults
\* before it splits the line, so that a rejected line leaves the defaults.
ParseCmdResetsFirst(cmd_string) ==
    LET r == parse_cmd(parse_cmd(cmd_switches, <<>>).cmd, cmd_string) IN
    /\ cmd_switches' = r.cmd
    /\ ret' = [Call("parse_cmd", "", cmd_string, NoKwargs, r)
                 EXCEPT !.handed = r.handed, !.switches = r.switches]
    /\ UNCHANGED <<arg_switches, own>>

\* a.parse_cmd(cmd_string)
ParseCmdOn(cmd_string) ==
    LET r == parse_cmd(cmd_switches, cmd_string) IN
    /\ cmd_switches' = r.cmd
    /\ ret' = [Call("parse_cmd", "", cmd_string, NoKwargs, r)
                 EXCEPT !.handed = r.handed, !.switches = r.switches]
    /\ UNCHANGED <<arg_switches, own>>

\* The string may be what prompt_str just returned.
ParseCmd ==
    \E cmd_string \in CmdStrings \cup
            (IF ret.op = "prompt_str" /\ ret.outcome = "return"
             THEN {ret.value.v} ELSE {}) :
        ParseCmdOn(cmd_string)

SetAttr ==
    \E w \in Writes :
        LET r == setattr(own, cmd_switches, w[1], w[2]) IN
        /\ own' = r.own
        /\ cmd_switches' = r.cmd
        /\ ret' = Call("setattr", w[1], <<>>, NoKwargs, Returned(PyNone))
        /\ UNCHANGED arg_switches

GetAttr ==
    \E name \in ReadNames :
        /\ ret' = Call("getattr", name, <<>>, NoKwargs,
                       getattribute(own, cmd_switches, arg_switches, name))
        /\ UNCHANGED <<arg_switches, cmd_switches, own>>

\* vars(a), a.__dict__: the full field mapping
Vars ==
    /\ arg_switches' = full_dict(cmd_switches, arg_switches)
    /\ ret' = Call("getattr", "__dict__", <<>>, NoKwargs,
                   Returned(PyDict(full_dict(cmd_switches, arg_switches))))
    /\ UNCHANGED <<cmd_switches, own>>

ToDict ==
    \E kwargs \in Overrides :
        LET r == to_dict(cmd_switches, arg_switches, kwargs) IN
        /\ arg_switches' = r.arg
        /\ ret' = Call("to_dict", "", <<>>, kwargs, r.result)
        /\ UNCHANGED <<cmd_switches, own>>

ToJson ==
    \E kwargs \in Overrides :
        LET r == json(cmd_switches, arg_switches, kwargs) IN
        /\ arg_switches' = r.arg
        /\ ret' = Call("json", "", <<>>, kwargs, r.result)
        /\ UNCHANGED <<cmd_switches, own>>

PromptStr ==
    \E kwargs \in Overrides :
        LET r == prompt_str(cmd_switches, arg_switches, kwargs) IN
        /\ arg_switches' = r.arg
        /\ ret' = Call("prompt_str", "", <<>>, kwargs, r.result)
        /\ UNCHANGED <<cmd_switches, own>>

FormatMetadata ==
    LET r == format_metadata(own, cmd_switches, arg_switches) IN
    /\ arg_switches' = r.arg
    /\ ret' = Call("format_metadata", "", <<>>, NoKwargs, r.result)
    /\ UNCHANGED <<cmd_switches, own>>

Next ==
    \/ ParseArgs
    \/ ParseCmd
    \/ SetAttr
    \/ GetAttr
    \/ Vars
    \/ ToDict
    \/ ToJson
    \/ PromptStr
    \/ FormatMetadata

Spec == Init /\ [][Next]_vars

\* The first command typed after construction, over every line of at most
\* MaxLen units of LineUnits.
MaxLen == 4

LineUnits == {"cat", "-s", "--seamless", SP, DQ, SQ, BS}

Lines == UNION {[1..n -> LineUnits] : n \in 0..MaxLen}

FirstCommand ==
    /\ ret.op = "init"
    /\ \E cmd_string \in Lines : ParseCmdOn(cmd_string)

SpecSplit == Init /\ [][FirstCommand]_vars

-----------------------------------------------------------------------------
(* The properties. *)

\* What a.parse_cmd('') leaves in the command record.
EmptyCommandRecord == ("prompt" :> PyStr(<<>>)) @@ CmdDefaults

\* The names of the model that do not begin with an underscore.
NonInternalNames ==
    (DOMAIN EmptyCommandRecord \cup DOMAIN ArgDefaults \cup ReadNames
     \cup {w[1] : w \in Writes} \cup UNION {DOMAIN kw : kw \in Overrides}
     \cup ClassAttrs) \ UnderscoreNames

\* The fields of the startup parser the command parser does not define.
StartupOnly == DOMAIN ArgDefaults \ DOMAIN EmptyCommandRecord

Tokenizes(cmd_string) == shlex_split(replace_quote(cmd_string)).ok

\* The line cannot be tokenized, or the command schema rejects its flags.
Malformed(cmd_string) ==
    LET r == parse_cmd(EmptyCommandRecord, cmd_string) IN
    ~Tokenizes(cmd_string) \/ (r.handed /\ r.outcome # "return")

\* A read of name n as the data model describes it: the command record
\* first, then the startup record, else attribute-not-found.
ReadsFromRecords(n) ==
    LET r == getattribute(own, cmd_switches, arg_switches, n) IN
    /\ n \in DOMAIN cmd_switches => r = Returned(cmd_switches[n])
    /\ n \notin DOMAIN cmd_switches /\ n \in DOMAIN arg_switches
         => r = Returned(arg_switches[n])
    /\ n \notin DOMAIN cmd_switches /\ n \notin DOMAIN arg_switches
         => r.outcome = "AttributeError"

\* C1 as claimed: in every reachable state, reading any non-internal name
\* returns the command record's value when the command record holds the
\* name, else the startup record's value when that record holds it, and
\* fails with AttributeError when neither holds it.
C1_ReadAnyNonInternalName == \A n \in NonInternalNames : ReadsFromRecords(n)

\* C1 as amended: the same, for every non-internal name that is not an
\* attribute of the Args class itself (its methods), which
\* object.__getattribute__ finds before either record is looked at.
C1_ReadPrecedence == \A n \in NonInternalNames \ ClassAttrs : ReadsFromRecords(n)

\* C1 witness: after an export, an attribute write and a read, the name
\* read is held by both records with different values and the read
\* returned the command record's.
C1_Witness ==
    /\ ret.op = "getattr" /\ ret.name = "model"
    /\ "steps" \in DOMAIN arg_switches
    /\ "model" \in DOMAIN cmd_switches
    /\ cmd_switches["model"] # arg_switches["model"]
    /\ ret.value = cmd_switches["model"]

\* C2: a parse_cmd call on a line that cannot be tokenized returns None;
\* no exception leaves the call.
C2_UntokenizableReturnsNone ==
    (ret.op = "parse_cmd" /\ ~Tokenizes(ret.input))
        => (ret.outcome = "return" /\ ret.value = PyNone)

\* C3: a parse_cmd call on a malformed command string changes neither the
\* command record nor the startup record (nor the instance's own dict).
C3_MalformedLeavesState ==
    [][(ret'.op = "parse_cmd" /\ Malformed(ret'.input))
         => (cmd_switches' = cmd_switches /\ arg_switches' = arg_switches
             /\ own' = own)]_vars

\* C3 witness: a malformed command string was just rejected while the
\* command record held the flags of an earlier command and a written
\* attribute.
C3_Witness ==
    /\ ret.op = "parse_cmd" /\ Malformed(ret.input)
    /\ cmd_switches["steps"] = PyInt(10)
    /\ "model" \in DOMAIN cmd_switches

\* C4: no call other than parse_args adds, removes or changes a field of
\* the startup record.
C4_StartupRecordImmutable ==
    [][ret'.op # "parse_args" => arg_switches' = arg_switches]_vars

\* C5: when a successful parse_cmd replaces a command record that held a
\* written startup-only attribute, reading that attribute afterwards
\* returns the value the startup flags gave it.
C5_ShadowEndsAtReparse ==
    [][(ret'.op = "parse_cmd" /\ ret'.outcome = "return" /\ ret'.value # PyNone)
         => \A n \in StartupOnly \cap DOMAIN cmd_switches :
                getattribute(own', cmd_switches', arg_switches', n)
                  = Returned(startup_switches[n])]_vars

\* The first token that begins with a dash, or one past the last token.
FirstDash(tokens) ==
    IF \E i \in DOMAIN tokens : tokens[i] # <<>> /\ tokens[i][1] \in DashUnits
    THEN CHOOSE i \in DOMAIN tokens :
            /\ tokens[i] # <<>> /\ tokens[i][1] \in DashUnits
            /\ \A j \in 1..(i - 1) : tokens[j] = <<>> \/ tokens[j][1] \notin DashUnits
    ELSE Len(tokens) + 1

\* C6: for every line that tokenizes, the flag parser is handed the tokens
\* before the first dash-prefixed token joined by single blanks as the
\* prompt, followed by that token and every later token in order.
C6_PromptAndFlagsSplit ==
    (ret.op = "parse_cmd" /\ Tokenizes(ret.input))
        => LET tokens == shlex_split(replace_quote(ret.input)).tokens
               k      == FirstDash(tokens)
           IN  /\ ret.handed
               /\ ret.switches = << join(SP, SubSeq(tokens, 1, k - 1)) >>
                                    \o SubSeq(tokens, k, Len(tokens))

\* The switches of the normalized prompt in their fixed order.
FieldOrder ==
    <<"-s", "-W", "-H", "-C", "-A", "-S", "--seamless", "-I", "--fit", "-f",
      "-G", "-U", "--embiggen", "--embiggen_tiles", "-v", "-V">>

\* The condition under which a switch belongs to the normalized prompt.
FieldIncluded(a, f) ==
    IF f \in {"-s", "-W", "-H", "-C", "-A", "-S"} THEN TRUE
    ELSE IF f = "--seamless" THEN truthy(a["seamless"])
    ELSE IF f = "-I" THEN truthy(a["init_img"])
    ELSE IF f = "--fit" THEN truthy(a["fit"])
    ELSE IF f = "-f" THEN truthy(a["init_img"]) /\ truthy(a["strength"])
    ELSE IF f = "-G" THEN truthy(a["gfpgan_strength"])
    ELSE IF f = "-U" THEN truthy(a["upscale"])
    ELSE IF f = "--embiggen" THEN truthy(a["embiggen"])
    ELSE IF f = "--embiggen_tiles" THEN truthy(a["embiggen_tiles"])
    ELSE IF f = "-v" THEN a["variation_amount"].v > 0
    ELSE truthy(a["with_variations"])

IsField(u) == \E i \in DOMAIN FieldOrder : FieldOrder[i] = u

\* C7: prompt_str returns a string; after the prompt its switches are, in
\* the fixed order, exactly those whose condition holds of the exported
\* configuration (the dict the call updated and formatted).
C7_PromptStrFields ==
    ret.op = "prompt_str"
        => /\ ret.outcome = "return"
           /\ LET a == arg_switches
                  IncludedIn(f) == FieldIncluded(a, f)
                  skip == 1 + Len(str(a["prompt"]))
              IN  SelectSeq(SubSeq(ret.value.v, skip + 1, Len(ret.value.v)), IsField)
                    = SelectSeq(FieldOrder, IncludedIn)

\* What a read of n returns on an object that has only been constructed.
Baseline(n) == getattribute(NoKwargs, EmptyCommandRecord, startup_switches, n)

\* C8: parse_cmd('') leaves every command field at its declared default,
\* and every name whose value in the replaced command record overrode the
\* baseline reads as the baseline again.
C8_EmptyCommandResets ==
    [][(ret'.op = "parse_cmd" /\ ret'.input = <<>>)
         => /\ cmd_switches' = EmptyCommandRecord
            /\ \A n \in DOMAIN cmd_switches :
                 getattribute(own, cmd_switches, arg_switches, n) # Baseline(n)
                   => getattribute(own', cmd_switches', arg_switches', n)
                        = Baseline(n)]_vars

\* C9: a call of to_dict, json or prompt_str, whatever overrides it is
\* given, changes what no read of a non-internal name returns.
C9_OverridesAreLocal ==
    [][ret'.op \in {"to_dict", "json", "prompt_str"}
         => \A n \in NonInternalNames :
                getattribute(own', cmd_switches', arg_switches', n)
                  = getattribute(own, cmd_switches, arg_switches, n)]_vars

RoundTripFields ==
    {"prompt", "steps", "width", "height", "cfg_scale", "sampler_name", "seed",
     "with_variations"}

\* C10: parse_cmd of the string prompt_str() just returned succeeds and
\* leaves the round-trip fields of the command record as they were.
C10_PromptStrRoundTrips ==
    [][(/\ ret.op = "prompt_str" /\ ret.outcome = "return" /\ ret.kwargs = NoKwargs
        /\ ret'.op = "parse_cmd" /\ ret'.input = ret.value.v)
         => /\ ret'.outcome = "return" /\ ret'.value # PyNone
            /\ \A f \in RoundTripFields : cmd_switches'[f] = cmd_switches[f]]_vars

====
